---------------------------- MODULE Spec2Model ----------------------------
(***************************************************************************)
(* Model of quicktype-mcp (src/main.py): the generate_model MCP tool, the   *)
(* QuicktypeService.generate_model service method it dispatches to, and the *)
(* recursive Dart class generator QuicktypeService._generate_dart_model.    *)
(*                                                                          *)
(* Representation.  A Python str is a sequence of fragments (TLA+ strings). *)
(* A string that comes from the caller (JSON text, keys, class name,        *)
(* language) has one fragment per character, so that lower(), title(),      *)
(* rstrip('s'), endswith('s'), `in` and the JSON scanner work on            *)
(* characters.  The literal parts of the f-string templates are kept as     *)
(* one fragment each; string concatenation is \o and "\n".join puts a       *)
(* "\n" fragment between its operands.                                      *)
(*                                                                          *)
(* A Python value is a record [k |-> type name, v |-> payload]:             *)
(*   NoneType <<>>, bool TRUE/FALSE, int n, float (the literal's characters),   *)
(*   str (sequence of fragments), list (sequence of values),                *)
(*   dict (sequence of <<key, value>> pairs in insertion order).            *)
(***************************************************************************)
EXTENDS Integers, Sequences, FiniteSets, TLC

(***************************************************************************)
(* Characters and the str methods the program uses.                         *)
(***************************************************************************)
LowerLetters ==
  <<"a","b","c","d","e","f","g","h","i","j","k","l","m",
    "n","o","p","q","r","s","t","u","v","w","x","y","z">>

UpperLetters ==
  <<"A","B","C","D","E","F","G","H","I","J","K","L","M",
    "N","O","P","Q","R","S","T","U","V","W","X","Y","Z">>

Digits == <<"0","1","2","3","4","5","6","7","8","9">>

Range(s) == {s[i] : i \in DOMAIN s}

islower(c) == c \in Range(LowerLetters)

isupper(c) == c \in Range(UpperLetters)

isdigit(c) == c \in Range(Digits)

\* a cased character: one that str.title() treats as part of a word
iscased(c) == islower(c) \/ isupper(c)

char_lower(c) ==
  IF isupper(c)
    THEN LowerLetters[CHOOSE i \in DOMAIN UpperLetters : UpperLetters[i] = c]
    ELSE c

char_upper(c) ==
  IF islower(c)
    THEN UpperLetters[CHOOSE i \in DOMAIN LowerLetters : LowerLetters[i] = c]
    ELSE c

\* s[lo-1:hi]: the characters at indexes lo..hi (1-based), clamped to the
\* string as Python slices are
slice(s, lo, hi) ==
  LET a == IF lo < 1 THEN 1 ELSE lo
      b == IF hi > Len(s) THEN Len(s) ELSE hi
  IN  IF a > b THEN <<>> ELSE SubSeq(s, a, b)

\* str.lower(): every upper-case letter of the string is lowered
lower(s) == [i \in DOMAIN s |-> char_lower(s[i])]

\* str.title(): a cased character that follows an uncased one (or starts the
\* string) is upper-cased, every other cased character is lowered
title(s) ==
  [i \in DOMAIN s |->
     IF i > 1 /\ iscased(s[i - 1]) THEN char_lower(s[i]) ELSE char_upper(s[i])]

\* str.replace(c, ''): every occurrence of the character is removed
remove(s, c) == SelectSeq(s, LAMBDA x : x # c)

\* str.endswith(c) for a one-character suffix
endswith(s, c) == Len(s) > 0 /\ s[Len(s)] = c

\* str.rstrip(c): ALL trailing occurrences of the character are removed
RECURSIVE rstrip(_, _)
rstrip(s, c) ==
  IF endswith(s, c) THEN rstrip(slice(s, 1, Len(s) - 1), c) ELSE s

\* sub in s, for strings of characters
contains(s, sub) ==
  \E i \in 0..(Len(s) - Len(sub)) : slice(s, i + 1, i + Len(sub)) = sub

\* sep.join(parts) for a sequence of strings
RECURSIVE join(_, _)
join(sep, parts) ==
  IF Len(parts) = 0 THEN <<>>
  ELSE IF Len(parts) = 1 THEN parts[1]
  ELSE parts[1] \o sep \o join(sep, Tail(parts))

(***************************************************************************)
(* Python values.                                                           *)
(***************************************************************************)
None == [k |-> "NoneType", v |-> <<>>]

PyBool(b) == [k |-> "bool", v |-> b]

PyInt(n) == [k |-> "int", v |-> n]

\* a float keeps the characters of its literal
PyFloat(literal) == [k |-> "float", v |-> literal]

PyStr(s) == [k |-> "str", v |-> s]

PyList(items) == [k |-> "list", v |-> items]

PyDict(pairs) == [k |-> "dict", v |-> pairs]

\* isinstance(value, cls); bool is a subclass of int in Python
isinstance(value, cls) ==
  \/ value.k = cls
  \/ cls = "int" /\ value.k = "bool"

\* dict.setdefault(key, value): an existing key keeps its value
dict_setdefault(pairs, key, value) ==
  IF \E i \in DOMAIN pairs : pairs[i][1] = key
    THEN pairs
    ELSE Append(pairs, <<key, value>>)

\* dict[key] = value: an existing key keeps its position and gets the new
\* value, a new key is appended
dict_set(pairs, key, value) ==
  IF \E i \in DOMAIN pairs : pairs[i][1] = key
    THEN [i \in DOMAIN pairs |->
            IF pairs[i][1] = key THEN <<key, value>> ELSE pairs[i]]
    ELSE Append(pairs, <<key, value>>)

dict_keys(pairs) == [i \in DOMAIN pairs |-> pairs[i][1]]

dict_values(pairs) == [i \in DOMAIN pairs |-> pairs[i][2]]

(***************************************************************************)
(* json.loads on a string of characters (strict JSON: no comments, no       *)
(* single quotes, no trailing commas).  The scanner follows the decoder of  *)
(* the standard library: scan_once, JSONObject, JSONArray, scanstring and   *)
(* the number pattern: sign, integer part without leading zeros, optional   *)
(* fraction, optional exponent.  A                                          *)
(* result is [ok, val, end, msg]: end is the index of the first character   *)
(* after the value, msg the message of the JSONDecodeError.  The strings    *)
(* of the model contain no backslash and no control character, so string    *)
(* escapes are not scanned.                                                 *)
(***************************************************************************)
Ok(val, end) == [ok |-> TRUE, val |-> val, end |-> end, msg |-> ""]

Err(msg, end) == [ok |-> FALSE, val |-> None, end |-> end, msg |-> msg]

CharAt(s, i) == IF i \in DOMAIN s THEN s[i] ELSE "EOF"

RECURSIVE skip_ws(_, _)
skip_ws(s, i) ==
  IF CharAt(s, i) = " " THEN skip_ws(s, i + 1) ELSE i

\* index of the first character at or after i that is not a digit
RECURSIVE skip_digits(_, _)
skip_digits(s, i) ==
  IF isdigit(CharAt(s, i)) THEN skip_digits(s, i + 1) ELSE i

DigitValue(c) == (CHOOSE i \in DOMAIN Digits : Digits[i] = c) - 1

\* int() of a sequence of decimal digits
RECURSIVE DecimalValue(_)
DecimalValue(ds) ==
  IF Len(ds) = 0 THEN 0
  ELSE 10 * DecimalValue(slice(ds, 1, Len(ds) - 1)) + DigitValue(ds[Len(ds)])

\* the number pattern at index i: end of the match, or i when there is none
scan_number(s, i) ==
  LET d0   == IF CharAt(s, i) = "-" THEN i + 1 ELSE i
      iend == IF CharAt(s, d0) = "0" THEN d0 + 1
              ELSE IF isdigit(CharAt(s, d0)) THEN skip_digits(s, d0)
              ELSE i
      fend == IF iend # i /\ CharAt(s, iend) = "." /\ isdigit(CharAt(s, iend + 1))
                THEN skip_digits(s, iend + 1) ELSE iend
      e0   == IF CharAt(s, fend + 1) \in {"+", "-"} THEN fend + 2 ELSE fend + 1
      eend == IF iend # i /\ CharAt(s, fend) \in {"e", "E"} /\ isdigit(CharAt(s, e0))
                THEN skip_digits(s, e0) ELSE fend
  IN  IF iend = i THEN Err("Expecting value", i)
      ELSE IF eend = iend
        THEN Ok(PyInt((IF d0 = i THEN 1 ELSE -1)
                      * DecimalValue(slice(s, d0, iend - 1))), iend)
        ELSE Ok(PyFloat(slice(s, i, eend - 1)), eend)

\* index of the closing quote of the string that starts after index i - 1,
\* or 0 when the string is not terminated
RECURSIVE closing_quote(_, _)
closing_quote(s, i) ==
  IF i > Len(s) THEN 0
  ELSE IF s[i] = "\"" THEN i
  ELSE closing_quote(s, i + 1)

\* scanstring: i is the index of the opening quote
scanstring(s, i) ==
  LET q == closing_quote(s, i + 1)
  IN  IF q = 0 THEN Err("Unterminated string starting at", i)
      ELSE Ok(PyStr(slice(s, i + 1, q - 1)), q + 1)

IsPrefixAt(s, i, word) == slice(s, i, i + Len(word) - 1) = word

RECURSIVE scan_once(_, _)
RECURSIVE JSONObject(_, _, _)
RECURSIVE JSONArray(_, _, _)

\* the members of an object from index i (after "{" or after ","), pairs
\* holds the members scanned so far
JSONObject(s, i, pairs) ==
  IF CharAt(s, i) # "\""
    THEN Err("Expecting property name enclosed in double quotes", i)
  ELSE
    LET key == scanstring(s, i)
    IN  IF ~key.ok THEN key
        ELSE
          LET c == skip_ws(s, key.end)
          IN  IF CharAt(s, c) # ":" THEN Err("Expecting ':' delimiter", c)
              ELSE
                LET val == scan_once(s, skip_ws(s, c + 1))
                IN  IF ~val.ok THEN val
                    ELSE
                      LET n  == skip_ws(s, val.end)
                          ps == dict_set(pairs, key.val.v, val.val)
                      IN  IF CharAt(s, n) = "}" THEN Ok(PyDict(ps), n + 1)
                          ELSE IF CharAt(s, n) # ","
                            THEN Err("Expecting ',' delimiter", n)
                          ELSE JSONObject(s, skip_ws(s, n + 1), ps)

\* the elements of an array from index i (after "[" or after ",")
JSONArray(s, i, items) ==
  LET val == scan_once(s, i)
  IN  IF ~val.ok THEN val
      ELSE
        LET n  == skip_ws(s, val.end)
            vs == Append(items, val.val)
        IN  IF CharAt(s, n) = "]" THEN Ok(PyList(vs), n + 1)
            ELSE IF CharAt(s, n) # "," THEN Err("Expecting ',' delimiter", n)
            ELSE JSONArray(s, skip_ws(s, n + 1), vs)

scan_once(s, i) ==
  LET c == CharAt(s, i)
  IN  IF c = "\"" THEN scanstring(s, i)
      ELSE IF c = "{"
        THEN LET n == skip_ws(s, i + 1)
             IN  IF CharAt(s, n) = "}" THEN Ok(PyDict(<<>>), n + 1)
                 ELSE JSONObject(s, n, <<>>)
      ELSE IF c = "["
        THEN LET n == skip_ws(s, i + 1)
             IN  IF CharAt(s, n) = "]" THEN Ok(PyList(<<>>), n + 1)
                 ELSE JSONArray(s, n, <<>>)
      ELSE IF IsPrefixAt(s, i, <<"n","u","l","l">>) THEN Ok(None, i + 4)
      ELSE IF IsPrefixAt(s, i, <<"t","r","u","e">>) THEN Ok(PyBool(TRUE), i + 4)
      ELSE IF IsPrefixAt(s, i, <<"f","a","l","s","e">>)
        THEN Ok(PyBool(FALSE), i + 5)
      ELSE scan_number(s, i)

\* json.loads(s): one value, surrounded by optional whitespace, and nothing
\* after it
json_loads(s) ==
  LET r == scan_once(s, skip_ws(s, 1))
  IN  IF ~r.ok THEN r
      ELSE IF skip_ws(s, r.end) # Len(s) + 1
        THEN Err("Extra data", skip_ws(s, r.end))
      ELSE r

\* str(e) of the JSONDecodeError ("<msg>: line .. column .. (char ..)")
JSONDecodeErrorStr(r) == <<r.msg, ": char ">> \o <<ToString(r.end - 1)>>

(***************************************************************************)
(* QuicktypeService: the type and name helpers.                             *)
(***************************************************************************)
\* all(isinstance(item, cls) for item in value)
all_isinstance(value, cls) ==
  \A i \in DOMAIN value.v : isinstance(value.v[i], cls)

\* the question mark left off the type that is nullable by itself
NullableExceptDynamic(type, make_nullable) ==
  IF make_nullable /\ type # <<"dynamic">> THEN type \o <<"?">> ELSE type

\* 'T?' if make_nullable else 'T'
Nullable(type, make_nullable) ==
  IF make_nullable THEN type \o <<"?">> ELSE type

\* the Python name of a value's type, as it appears in error messages
TypeName(value) == value.k

get_dart_type(value, make_nullable) ==
  IF isinstance(value, "bool") THEN Nullable(<<"bool">>, make_nullable)
  ELSE IF isinstance(value, "int") THEN Nullable(<<"int">>, make_nullable)
  ELSE IF isinstance(value, "float") THEN Nullable(<<"double">>, make_nullable)
  ELSE IF isinstance(value, "str") THEN Nullable(<<"String">>, make_nullable)
  ELSE IF isinstance(value, "dict")
    THEN Nullable(<<"Map<String, dynamic>">>, make_nullable)
  ELSE IF isinstance(value, "list")
    THEN Nullable(<<"List<dynamic>">>, make_nullable)
  ELSE Nullable(<<"dynamic">>, make_nullable)

\* get_dart_type raises NameError (class_name is not defined there) for a
\* non-empty list of objects; _generate_dart_model never passes it a list
get_dart_type_raises(value) ==
  isinstance(value, "list") /\ Len(value.v) > 0 /\ all_isinstance(value, "dict")

\* the class name without the parent prefix
UnqualifiedClassName(parent_name, key) == remove(title(key), "_")

_generate_class_name(parent_name, key) ==
  IF parent_name = <<>>
    THEN remove(title(key), "_")
    ELSE parent_name \o remove(title(key), "_")

\* the class name of the items of an array of objects
item_class_name(class_name, json_key) ==
  LET name == _generate_class_name(class_name, rstrip(json_key, "s"))
  IN  IF ~endswith(name, "s") /\ endswith(json_key, "s")
        THEN rstrip(name, "s")
        ELSE name

\* the element type of an array that is not an array of objects
element_type(value) ==
  IF Len(value.v) > 0 /\ all_isinstance(value, "str") THEN <<"String">>
  ELSE IF Len(value.v) > 0 /\ all_isinstance(value, "int") THEN <<"int">>
  ELSE IF Len(value.v) > 0 /\ all_isinstance(value, "float") THEN <<"double">>
  ELSE IF Len(value.v) > 0 /\ all_isinstance(value, "bool") THEN <<"bool">>
  ELSE <<"dynamic">>

\* the DateTime test without the test on the value
is_datetime_by_key(json_key, value) ==
  /\ isinstance(value, "str")
  /\ \/ contains(lower(json_key), <<"d","a","t","e">>)
     \/ contains(lower(json_key), <<"t","i","m","e">>)
     \/ contains(lower(json_key), <<"c","r","e","a","t","e","d">>)
     \/ contains(lower(json_key), <<"u","p","d","a","t","e","d">>)

\* the DateTime test on a key and its string value
is_datetime(json_key, value) ==
  /\ isinstance(value, "str")
  /\ \/ contains(lower(json_key), <<"d","a","t","e">>)
     \/ contains(lower(json_key), <<"t","i","m","e">>)
     \/ contains(lower(json_key), <<"c","r","e","a","t","e","d">>)
     \/ contains(lower(json_key), <<"u","p","d","a","t","e","d">>)
  /\ \/ contains(value.v, <<"T">>) /\ contains(value.v, <<"Z">>)
     \/ contains(value.v, <<"-">>) /\ contains(value.v, <<":">>)

\* the branches with an array taken for an array of objects when any of
\* its elements is an object
FieldBranchAnyObject(json_key, value) ==
  IF isinstance(value, "dict") THEN "object"
  ELSE IF isinstance(value, "list")
    THEN IF \E i \in DOMAIN value.v : isinstance(value.v[i], "dict")
           THEN "object_array" ELSE "simple_array"
  ELSE IF is_datetime(json_key, value) THEN "datetime"
  ELSE "primitive"

\* which branch of the loop body a field takes
FieldBranch(json_key, value) ==
  IF isinstance(value, "dict") THEN "object"
  ELSE IF isinstance(value, "list")
    THEN IF Len(value.v) > 0 /\ isinstance(value.v[1], "dict")
           THEN "object_array" ELSE "simple_array"
  ELSE IF is_datetime(json_key, value) THEN "datetime"
  ELSE "primitive"

\* the class a field's branch generates: its name and the object it is
\* generated from (only for the branches "object" and "object_array")
NestedName(class_name, json_key, value) ==
  IF FieldBranch(json_key, value) = "object"
    THEN _generate_class_name(class_name, json_key)
    ELSE item_class_name(class_name, json_key)

\* the argument of the recursive call taken from the end of the array
NestedDataLast(json_key, value) ==
  IF FieldBranch(json_key, value) = "object" THEN value
  ELSE value.v[Len(value.v)]

NestedData(json_key, value) ==
  IF FieldBranch(json_key, value) = "object" THEN value ELSE value.v[1]

field_type(class_name, json_key, value) ==
  LET branch == FieldBranch(json_key, value)
  IN  IF branch = "object"
        THEN NestedName(class_name, json_key, value) \o <<"?">>
      ELSE IF branch = "object_array"
        THEN <<"List<">> \o NestedName(class_name, json_key, value) \o <<">", "?">>
      ELSE IF branch = "simple_array"
        THEN <<"List<">> \o element_type(value) \o <<">", "?">>
      ELSE IF branch = "datetime" THEN <<"DateTime", "?">>
      ELSE get_dart_type(value, TRUE)

\* the four lines one field adds: to class_code, constructors, from_json
\* and to_json
class_code_line(class_name, json_key, value) ==
  <<"  final ">> \o field_type(class_name, json_key, value)
    \o <<" ">> \o json_key \o <<";">>

constructors_line(json_key) == <<"    this.">> \o json_key \o <<",">>

\* the fromJson line with an array of objects decoded the way an object is
from_json_line_as_object(class_name, json_key, value) ==
  LET branch == FieldBranch(json_key, value)
      head   == <<"    ">> \o json_key \o <<": json['">> \o json_key \o <<"']">>
      nested == NestedName(class_name, json_key, value)
  IN  IF branch \in {"object", "object_array"}
        THEN head \o <<" == null ? null : ">> \o nested
               \o <<".fromJson(json['">> \o json_key \o <<"']),">>
      ELSE IF branch = "simple_array"
        THEN head \o <<" == null ? [] : List<">> \o element_type(value)
               \o <<">.from(json['">> \o json_key \o <<"']!.map((x) => x)),">>
      ELSE IF branch = "datetime"
        THEN head \o <<" == null ? null : DateTime.parse(json['">>
               \o json_key \o <<"']),">>
      ELSE head \o <<",">>

from_json_line(class_name, json_key, value) ==
  LET branch == FieldBranch(json_key, value)
      head   == <<"    ">> \o json_key \o <<": json['">> \o json_key \o <<"']">>
      nested == NestedName(class_name, json_key, value)
  IN  IF branch = "object"
        THEN head \o <<" == null ? null : ">> \o nested
               \o <<".fromJson(json['">> \o json_key \o <<"']),">>
      ELSE IF branch = "object_array"
        THEN head \o <<" == null ? [] : List<">> \o nested
               \o <<">.from(json['">> \o json_key
               \o <<"']!.map((x) => x == null ? null : ">> \o nested
               \o <<".fromJson(x))),">>
      ELSE IF branch = "simple_array"
        THEN head \o <<" == null ? [] : List<">> \o element_type(value)
               \o <<">.from(json['">> \o json_key \o <<"']!.map((x) => x)),">>
      ELSE IF branch = "datetime"
        THEN head \o <<" == null ? null : DateTime.parse(json['">>
               \o json_key \o <<"']),">>
      ELSE head \o <<",">>

to_json_line(json_key, value) ==
  LET branch == FieldBranch(json_key, value)
      head   == <<"    '">> \o json_key \o <<"': ">> \o json_key
  IN  IF branch = "object" THEN head \o <<"?.toJson(),">>
      ELSE IF branch = "object_array"
        THEN head \o <<" == null ? [] : List<dynamic>.from(">> \o json_key
               \o <<"!.map((x) => x?.toJson())),">>
      ELSE IF branch = "simple_array"
        THEN head \o <<" == null ? [] : List<dynamic>.from(">> \o json_key
               \o <<"!.map((x) => x)),">>
      ELSE IF branch = "datetime" THEN head \o <<"?.toIso8601String(),">>
      ELSE head \o <<",">>

(***************************************************************************)
(* One activation of _generate_dart_model.  The four line lists start with  *)
(* the class header lines; next is the index of the item of                 *)
(* json_data.items() the loop handles next.                                 *)
(***************************************************************************)
NewFrame(json_data, class_name, parent_name) ==
  [json_data   |-> json_data,
   class_name  |-> class_name,
   parent_name |-> parent_name,
   next        |-> 1,
   class_code  |-> << <<"class ">> \o class_name \o <<" {">> >>,
   constructors |-> << <<"  ">> \o class_name \o <<"({">> >>,
   from_json   |-> << <<"  factory ">> \o class_name
                        \o <<".fromJson(Map<String, dynamic> json) => ">>
                        \o class_name \o <<"(">> >>,
   to_json     |-> << <<"  Map<String, dynamic> toJson() => {">> >>]

\* the frame after the loop body has run for its next item
AddField(frame) ==
  LET item == frame.json_data.v[frame.next]
      key  == item[1]
      val  == item[2]
  IN  [frame EXCEPT
         !.next = @ + 1,
         !.class_code = Append(@, class_code_line(frame.class_name, key, val)),
         !.constructors = Append(@, constructors_line(key)),
         !.from_json = Append(@, from_json_line(frame.class_name, key, val)),
         !.to_json = Append(@, to_json_line(key, val))]

\* the finished class: fields, constructor, fromJson factory, toJson method
FinalClassCode(frame) ==
  frame.class_code \o << <<>> >> \o frame.constructors \o << <<"  });">> >>
    \o << <<>> >> \o frame.from_json \o << <<"  );">> >>
    \o << <<>> >> \o frame.to_json \o << <<"  };">> >> \o << <<"}">> >>

imports == << <<"import 'dart:convert';">>, <<>> >>

helpers(class_name) ==
  << class_name \o <<" ">> \o lower(class_name)
       \o <<"FromJson(String str) => ">> \o class_name
       \o <<".fromJson(json.decode(str));">>,
     <<>>,
     <<"String ">> \o lower(class_name) \o <<"ToJson(">> \o class_name
       \o <<" data) => json.encode(data.toJson());">> >>

\* the returned string without the classes of the class table
ReturnWithoutNested(frame, nested_classes) ==
  LET class_code == FinalClassCode(frame)
  IN  IF frame.parent_name = <<>>
        THEN join(<<"\n">>,
               imports \o helpers(frame.class_name) \o << <<>> >>
                 \o << join(<<"\n">>, class_code) >>)
        ELSE join(<<"\n">>, class_code)

\* the string an activation returns once its loop is over
ReturnValue(frame, nested_classes) ==
  LET class_code == FinalClassCode(frame)
  IN  IF frame.parent_name = <<>>
        THEN join(<<"\n">>,
               imports \o helpers(frame.class_name) \o << <<>> >>
                 \o << join(<<"\n">>, class_code) >>
                 \o [i \in DOMAIN nested_classes |->
                       <<"\n">> \o nested_classes[i][2]])
        ELSE join(<<"\n">>, class_code)

(***************************************************************************)
(* _generate_dart_model as a function: the code it returns for json_data    *)
(* (a dict) and the class table it leaves behind, given the table it was    *)
(* handed.                                                                  *)
(***************************************************************************)
RECURSIVE generate_dart_model(_, _, _, _)
RECURSIVE generate_fields(_, _)

\* the loop over json_data.items() from frame.next on
generate_fields(frame, nested_classes) ==
  IF frame.next > Len(frame.json_data.v)
    THEN [frame |-> frame, nested_classes |-> nested_classes]
  ELSE
    LET item == frame.json_data.v[frame.next]
        key  == item[1]
        val  == item[2]
    IN  IF FieldBranch(key, val) \in {"object", "object_array"}
          THEN
            LET name == NestedName(frame.class_name, key, val)
                sub  == generate_dart_model(NestedData(key, val), name,
                                            frame.class_name, nested_classes)
            IN  generate_fields(AddField(frame),
                  PyDict(dict_set(sub.nested_classes.v, name, sub.code)))
          ELSE generate_fields(AddField(frame), nested_classes)

generate_dart_model(json_data, class_name, parent_name, nested_classes) ==
  LET done == generate_fields(NewFrame(json_data, class_name, parent_name),
                              nested_classes)
  IN  [code |-> ReturnValue(done.frame, done.nested_classes.v),
       nested_classes |-> done.nested_classes]

(***************************************************************************)
(* str(e) of the exceptions the service catches, and str.capitalize().      *)
(***************************************************************************)
\* AttributeError of json_data.items() on a value that is not a dict
NoItemsError(value) ==
  <<"'", TypeName(value), "' object has no attribute 'items'">>

\* AttributeError of a generator method the class does not define
NoGeneratorError(lang) ==
  <<"type object 'QuicktypeService' has no attribute '_generate_">>
    \o lang \o <<"_model'">>

capitalize(s) ==
  [i \in DOMAIN s |-> IF i = 1 THEN char_upper(s[i]) ELSE char_lower(s[i])]

dart == <<"d","a","r","t">>

typescript == <<"t","y","p","e","s","c","r","i","p","t">>

kotlin == <<"k","o","t","l","i","n">>

swift == <<"s","w","i","f","t">>

python == <<"p","y","t","h","o","n">>

java == <<"j","a","v","a">>

go == <<"g","o">>

\* list_supported_languages()["languages"]
languages == <<dart, typescript, kotlin, swift, python, java, go>>

(***************************************************************************)
(* The state.                                                               *)
(*   pc             where the current call is: "idle" (no call), "tool"     *)
(*                  (body of the MCP tool), "service" (the service parses   *)
(*                  its input), "dispatch" (the service picks a generator), *)
(*                  "generate" (inside _generate_dart_model), "done"        *)
(*   request        the call as the caller made it                          *)
(*   json_input     the json_input parameter of the service method          *)
(*   parsed_json    the service's parsed_json                               *)
(*   stack          the activations of _generate_dart_model, root first     *)
(*   nested_classes the class table of the run (a dict: name -> code)       *)
(*   default_nested_classes  the default value of the parameter             *)
(*                  nested_classes, which lives as long as the function     *)
(*   result         the dict the call returned                              *)
(*   calls          activations of _generate_dart_model in this call        *)
(*   served         whether an earlier call has returned                    *)
(***************************************************************************)
VARIABLES pc, request, json_input, parsed_json, stack, nested_classes,
          default_nested_classes, result, calls, served

vars == <<pc, request, json_input, parsed_json, stack, nested_classes,
          default_nested_classes, result, calls, served>>

NoRequest ==
  [entry |-> "none", json_input |-> None, class_name |-> <<>>,
   language |-> <<>>]

NoResult == <<>>

Init ==
  /\ pc = "idle"
  /\ request = NoRequest
  /\ json_input = None
  /\ parsed_json = None
  /\ stack = <<>>
  /\ nested_classes = PyDict(<<>>)
  /\ default_nested_classes = None
  /\ result = NoResult
  /\ calls = 0
  /\ served = FALSE

(***************************************************************************)
(* The MCP tool generate_model and QuicktypeService.generate_model.         *)
(***************************************************************************)
\* the except clauses: which exception types each one catches.  Every
\* exception of the model (JSONDecodeError, AttributeError) is an Exception.
\* `except Exception` of the tool body
ToolExcept(exc_type) == TRUE

\* `except json.JSONDecodeError` around the service's json.loads
ServiceInnerExcept(exc_type) == exc_type = "JSONDecodeError"

\* an except clause that catches only the errors of bad input
ExceptValueError(exc_type) == exc_type \in {"JSONDecodeError", "ValueError"}

\* `except Exception` around the whole service body
ServiceOuterExcept(exc_type) == TRUE

\* where an exception raised at a place ends up: the result of the first
\* enclosing except clause that catches it, or the caller of the entry point
\* ("raised") when none does.  The places: "tool_body" (the tool's own
\* json.loads), "service_parse" (the service's json.loads), "service_body"
\* (the rest of the service's try block)
Handle(place, exc_type, msg) ==
  IF place = "service_parse" /\ ServiceInnerExcept(exc_type)
    THEN [pc |-> "done", result |-> [error |-> <<"Invalid JSON: ">> \o msg]]
  ELSE IF place \in {"service_parse", "service_body"}
            /\ ServiceOuterExcept(exc_type)
    THEN [pc |-> "done",
          result |-> [error |-> <<"Failed to generate model: ">> \o msg]]
  ELSE IF (place = "tool_body" \/ request.entry = "tool")
            /\ ToolExcept(exc_type)
    THEN [pc |-> "done",
          result |-> [error |-> <<"Error generating model: ">> \o msg]]
  ELSE [pc |-> "raised", result |-> NoResult]

\* a dict as the parameter's default: the run's table is the default object
SharedParameterDefault(default, table) == table

\* the default of the parameter nested_classes after a run that built
\* table: the default is None, a run binds a fresh dict to its own
\* parameter and never touches the default
ParameterDefault(default, table) == default

\* `if nested_classes is None: nested_classes = {}` for the root call, which
\* passes no table and so receives the parameter's default
RootNestedClasses(default) ==
  IF default = None THEN PyDict(<<>>) ELSE default

\* the tool body fails to parse its text: json.loads raises JSONDecodeError
\* inside the tool's try block
ToolParseError ==
  /\ pc = "tool"
  /\ isinstance(request.json_input, "str")
  /\ ~json_loads(request.json_input.v).ok
  /\ LET h == Handle("tool_body", "JSONDecodeError",
                     JSONDecodeErrorStr(json_loads(request.json_input.v)))
     IN  result' = h.result /\ pc' = h.pc
  /\ UNCHANGED <<request, json_input, parsed_json, stack, nested_classes,
                 default_nested_classes, calls, served>>

\* the tool body hands the parsed value (or a non-str input as it is) to the
\* service method as its json_input
ToolDispatch ==
  /\ pc = "tool"
  /\ isinstance(request.json_input, "str")
       => json_loads(request.json_input.v).ok
  /\ json_input' = IF isinstance(request.json_input, "str")
                     THEN json_loads(request.json_input.v).val
                     ELSE request.json_input
  /\ pc' = "service"
  /\ UNCHANGED <<request, parsed_json, stack, nested_classes,
                 default_nested_classes, result, calls,
                 served>>

\* the service's inner try: json.loads raises JSONDecodeError
ServiceParseError ==
  /\ pc = "service"
  /\ isinstance(json_input, "str")
  /\ ~json_loads(json_input.v).ok
  /\ LET h == Handle("service_parse", "JSONDecodeError",
                     JSONDecodeErrorStr(json_loads(json_input.v)))
     IN  result' = h.result /\ pc' = h.pc
  /\ UNCHANGED <<request, json_input, parsed_json, stack, nested_classes,
                 default_nested_classes, calls, served>>

\* the service's inner try succeeds: a str is parsed, anything else is taken
\* as already parsed
ServiceParsed ==
  /\ pc = "service"
  /\ isinstance(json_input, "str") => json_loads(json_input.v).ok
  /\ parsed_json' = IF isinstance(json_input, "str")
                      THEN json_loads(json_input.v).val
                      ELSE json_input
  /\ pc' = "dispatch"
  /\ UNCHANGED <<request, json_input, stack, nested_classes,
                 default_nested_classes, result, calls,
                 served>>

\* language.lower() == "dart": both branches of the "data" test make the
\* same call _generate_dart_model(parsed_json, class_name)
DispatchDart ==
  /\ pc = "dispatch"
  /\ lower(request.language) = dart
  /\ stack' = << NewFrame(parsed_json, request.class_name, <<>>) >>
  /\ nested_classes' = RootNestedClasses(default_nested_classes)
  /\ calls' = calls + 1
  /\ pc' = "generate"
  /\ UNCHANGED <<request, json_input, parsed_json, default_nested_classes,
                 result, served>>

\* typescript, kotlin, swift, python: the branch calls a method the class
\* does not have, which raises AttributeError inside the service's try block
DispatchMissingGenerator ==
  /\ pc = "dispatch"
  /\ lower(request.language) \in {typescript, kotlin, swift, python}
  /\ LET h == Handle("service_body", "AttributeError",
                     NoGeneratorError(lower(request.language)))
     IN  result' = h.result /\ pc' = h.pc
  /\ UNCHANGED <<request, json_input, parsed_json, stack, nested_classes,
                 default_nested_classes, calls, served>>

\* the final else of the language chain
DispatchUnsupported ==
  /\ pc = "dispatch"
  /\ lower(request.language) \notin {dart, typescript, kotlin, swift, python}
  /\ result' = [error |-> <<"Language '">> \o request.language
                   \o <<"' is not supported in offline mode">>]
  /\ pc' = "done"
  /\ UNCHANGED <<request, json_input, parsed_json, stack, nested_classes,
                 default_nested_classes, calls, served>>

(***************************************************************************)
(* _generate_dart_model, one loop iteration or one call/return per step.    *)
(***************************************************************************)
Top == stack[Len(stack)]

LoopDone(frame) == frame.next > Len(frame.json_data.v)

NextKey(frame) == frame.json_data.v[frame.next][1]

NextValue(frame) == frame.json_data.v[frame.next][2]

ReplaceTop(frame) == [stack EXCEPT ![Len(stack)] = frame]

\* json_data.items() on a root that is not a dict raises AttributeError
\* inside the service's try block
GenerateRaise ==
  /\ pc = "generate"
  /\ ~isinstance(Top.json_data, "dict")
  /\ LET h == Handle("service_body", "AttributeError",
                     NoItemsError(Top.json_data))
     IN  result' = h.result /\ pc' = h.pc
  /\ stack' = <<>>
  /\ default_nested_classes' =
       ParameterDefault(default_nested_classes, nested_classes)
  /\ UNCHANGED <<request, json_input, parsed_json, nested_classes, calls,
                 served>>

\* a field that needs no class: simple array, DateTime or primitive
GenerateField ==
  /\ pc = "generate"
  /\ isinstance(Top.json_data, "dict")
  /\ ~LoopDone(Top)
  /\ FieldBranch(NextKey(Top), NextValue(Top))
       \in {"simple_array", "datetime", "primitive"}
  /\ stack' = ReplaceTop(AddField(Top))
  /\ UNCHANGED <<pc, request, json_input, parsed_json, nested_classes,
                 default_nested_classes, result, calls,
                 served>>

\* an object field or an array whose first element is an object: the
\* recursive call, for the object or for that first element
GenerateEnter ==
  /\ pc = "generate"
  /\ isinstance(Top.json_data, "dict")
  /\ ~LoopDone(Top)
  /\ FieldBranch(NextKey(Top), NextValue(Top)) \in {"object", "object_array"}
  /\ stack' = Append(stack,
       NewFrame(NestedData(NextKey(Top), NextValue(Top)),
                NestedName(Top.class_name, NextKey(Top), NextValue(Top)),
                Top.class_name))
  /\ calls' = calls + 1
  /\ UNCHANGED <<pc, request, json_input, parsed_json, nested_classes,
                 default_nested_classes, result, served>>

\* a recursive call returns: the caller stores the returned code in the
\* class table under the nested name and adds the field's lines
GenerateReturn ==
  /\ pc = "generate"
  /\ isinstance(Top.json_data, "dict")
  /\ LoopDone(Top)
  /\ Len(stack) > 1
  /\ LET caller == stack[Len(stack) - 1]
         name   == NestedName(caller.class_name, NextKey(caller),
                              NextValue(caller))
     IN  /\ nested_classes' =
              PyDict(dict_set(nested_classes.v, name,
                              ReturnValue(Top, nested_classes.v)))
         /\ stack' = [i \in 1..(Len(stack) - 1) |->
                        IF i = Len(stack) - 1 THEN AddField(caller)
                        ELSE stack[i]]
  /\ UNCHANGED <<pc, request, json_input, parsed_json,
                 default_nested_classes, result, calls,
                 served>>

\* the root call returns and the service builds its result
GenerateFinish ==
  /\ pc = "generate"
  /\ isinstance(Top.json_data, "dict")
  /\ LoopDone(Top)
  /\ Len(stack) = 1
  /\ result' = [code       |-> ReturnValue(Top, nested_classes.v),
                language   |-> request.language,
                class_name |-> request.class_name,
                message    |-> capitalize(request.language)
                                 \o <<" model generated successfully">>]
  /\ stack' = <<>>
  /\ default_nested_classes' =
       ParameterDefault(default_nested_classes, nested_classes)
  /\ pc' = "done"
  /\ UNCHANGED <<request, json_input, parsed_json, nested_classes, calls,
                 served>>

\* the caller has the result (or the exception); the locals of the call are
\* gone
Return ==
  /\ pc \in {"done", "raised"}
  /\ pc' = "idle"
  /\ request' = NoRequest
  /\ json_input' = None
  /\ parsed_json' = None
  /\ stack' = <<>>
  /\ nested_classes' = PyDict(<<>>)
  /\ result' = NoResult
  /\ calls' = 0
  /\ served' = TRUE
  /\ UNCHANGED default_nested_classes

(***************************************************************************)
(* The inputs.  Class names, keys and values are the ones the documentation *)
(* of the program uses (User, SampleResponse, groups, shipping_address,     *)
(* createdAt, ...) plus the keys that exercise the naming rules.            *)
(***************************************************************************)
User == <<"U","s","e","r">>

Order == <<"O","r","d","e","r">>

SampleResponse == <<"S","a","m","p","l","e","R","e","s","p","o","n","s","e">>

k_id == <<"i","d">>

k_name == <<"n","a","m","e">>

k_tags == <<"t","a","g","s">>

k_items == <<"i","t","e","m","s">>

k_item == <<"i","t","e","m">>

k_class == <<"c","l","a","s","s">>

k_groups == <<"g","r","o","u","p","s">>

k_shipping_address == <<"s","h","i","p","p","i","n","g","_","a","d","d","r","e","s","s">>

k_a_b == <<"a","_","b">>

k_A_B == <<"A","_","B">>

k_ss == <<"s","s">>

k_createdAt == <<"c","r","e","a","t","e","d","A","t">>

k_address == <<"a","d","d","r","e","s","s">>

k_coordinates == <<"c","o","o","r","d","i","n","a","t","e","s">>

k_underscore == <<"_">>

k_empty == <<>>

hello == <<"h","e","l","l","o">>

iso_date ==
  <<"2","0","2","3","-","1","0","-","1","5","T",
    "0","8",":","3","0",":","0","0","Z">>

\* longest array of primitives in an input
MaxLen == 2

\* deepest nesting of objects below the root object
MaxDepth == 2

\* most fields of an object whose fields are all drawn together
MaxFields == 2

ClassNames == {User, Order, SampleResponse, <<>>}

Languages ==
  Range(languages)
    \cup {<<"D","a","r","t">>, <<"D","A","R","T">>, <<"r","u","s","t">>,
          <<"P","y","t","h","o","n">>, <<>>}

Scalars ==
  {None, PyBool(TRUE), PyBool(FALSE), PyInt(1), PyFloat(<<"1",".","5">>),
   PyStr(hello), PyStr(iso_date)}

ListElements ==
  {None, PyBool(TRUE), PyInt(1), PyFloat(<<"1",".","5">>), PyStr(<<"x">>)}

\* the arrays of at most MaxLen primitives
SimpleLists ==
  {PyList(items) : items \in UNION {[1..n -> ListElements] : n \in 0..MaxLen}}

Leaves == Scalars \cup SimpleLists

FlatKeys ==
  {k_id, k_name, k_tags, k_items, k_item, k_class, k_groups,
   k_shipping_address, k_a_b, k_A_B, k_ss, k_createdAt, k_underscore,
   k_empty}

\* objects with one field holding a primitive or an array of primitives
FlatDocs ==
  {PyDict(<<>>)} \cup {PyDict(<< <<key, v>> >>) : key \in FlatKeys, v \in Leaves}

ChainKeys ==
  {k_address, k_coordinates, k_shipping_address, k_groups, k_class,
   k_underscore}

InnerObjects == {PyDict(<<>>), PyDict(<< <<k_id, PyInt(1)>> >>)}

\* an object as the value of a field: itself, or as the first element of an
\* array
Wrap(w, obj) ==
  IF w = "object" THEN obj ELSE PyList(<<obj>>)

Wraps == {"object", "array"}

\* one-field objects nested to depth at most d
RECURSIVE ChainDocs(_)
ChainDocs(d) ==
  IF d = 0 THEN InnerObjects
  ELSE LET below == ChainDocs(d - 1)
       IN  below \cup {PyDict(<< <<key, Wrap(w, obj)>> >>) :
                         key \in ChainKeys, w \in Wraps, obj \in below}

FieldKeys == {k_item, k_items, k_a_b, k_A_B, k_underscore, k_id}

FieldValues ==
  {PyInt(1),
   PyDict(<< <<k_id, PyInt(1)>> >>),
   PyList(<< PyDict(<< <<k_name, PyStr(hello)>> >>) >>)}

\* the sequences of n distinct keys
KeySeqs(n) ==
  {ks \in [1..n -> FieldKeys] : \A i, j \in 1..n : i # j => ks[i] # ks[j]}

\* objects of 2..MaxFields fields, each a primitive, an object or an array
\* of objects
FieldDocs ==
  UNION {{PyDict([i \in 1..n |-> <<ks[i], vs[i]>>]) :
            ks \in KeySeqs(n), vs \in [1..n -> FieldValues]} : n \in 2..MaxFields}

k_DATE == <<"D","A","T","E">>

DateKeys ==
  {k_createdAt, k_DATE, <<"u","p","t","i","m","e">>,
   <<"U","p","d","a","t","e","d">>, k_name, k_id}

DateValues ==
  {iso_date, hello, <<"T","Z">>, <<"-",":">>, <<":","-">>, <<"T","-">>,
   <<"Z",":">>, <<"T",":">>, <<"t","z">>, <<"T">>, <<>>}

\* objects with one string field, for the DateTime test
DateDocs ==
  {PyDict(<< <<key, PyStr(v)>> >>) : key \in DateKeys, v \in DateValues}

\* the first element of an array of objects, and what may follow it
FirstElements ==
  {PyDict(<<>>), PyDict(<< <<k_id, PyInt(1)>> >>),
   PyDict(<< <<k_name, PyStr(hello)>>, <<k_id, PyInt(1)>> >>)}

LaterElements ==
  {None, PyInt(1), PyDict(<<>>), PyDict(<< <<k_name, PyInt(1)>> >>),
   PyDict(<< <<k_id, PyStr(<<"x">>)>> >>), PyList(<< PyDict(<<>>) >>)}

\* objects with one field: an array that starts with an object, followed by
\* at most MaxLen elements of any shape
ArrayDocs ==
  {PyDict(<< <<k_items, PyList(<<first>> \o later)>> >>) :
     first \in FirstElements,
     later \in UNION {[1..n -> LaterElements] : n \in 0..MaxLen}}

\* documents whose root is not an object
OtherRoots == Leaves \cup {PyStr(<<"{","}">>), PyList(<< PyDict(<<>>) >>)}

\* decimal digits of a natural number
RECURSIVE Decimal(_)
Decimal(n) ==
  IF n < 10 THEN <<Digits[n + 1]>>
  ELSE Decimal(n \div 10) \o <<Digits[(n % 10) + 1]>>

\* the JSON text of a value, in the layout of json.dumps
RECURSIVE json_text(_)
json_text(value) ==
  IF value.k = "NoneType" THEN <<"n","u","l","l">>
  ELSE IF value.k = "bool"
    THEN IF value.v THEN <<"t","r","u","e">> ELSE <<"f","a","l","s","e">>
  ELSE IF value.k = "int"
    THEN IF value.v < 0 THEN <<"-">> \o Decimal(-value.v) ELSE Decimal(value.v)
  ELSE IF value.k = "float" THEN value.v
  ELSE IF value.k = "str" THEN <<"\"">> \o value.v \o <<"\"">>
  ELSE IF value.k = "list"
    THEN <<"[">>
           \o join(<<",", " ">>, [i \in DOMAIN value.v |-> json_text(value.v[i])])
           \o <<"]">>
  ELSE <<"{">>
         \o join(<<",", " ">>,
              [i \in DOMAIN value.v |->
                 <<"\"">> \o value.v[i][1] \o <<"\"", ":", " ">>
                   \o json_text(value.v[i][2])])
         \o <<"}">>

Texts(docs) == {PyStr(json_text(d)) : d \in docs}

SmallDocs ==
  {PyDict(<<>>),
   PyDict(<< <<k_id, PyInt(1)>> >>),
   PyDict(<< <<k_groups, PyList(<< PyDict(<< <<k_id, PyInt(1)>> >>) >>)>> >>),
   PyList(<<PyInt(1)>>),
   PyInt(1)}

\* texts edited the way hand-written JSON goes wrong: the last character
\* missing, a trailing comma before the closing bracket, single quotes, a
\* second value, nothing at all
Quote(c) == IF c = "\"" THEN "'" ELSE c

EditedTexts ==
  UNION {{PyStr(slice(t.v, 1, Len(t.v) - 1)),
          PyStr(slice(t.v, 1, Len(t.v) - 1) \o <<",">> \o slice(t.v, Len(t.v), Len(t.v))),
          PyStr([i \in DOMAIN t.v |-> Quote(t.v[i])]),
          PyStr(t.v \o <<" ">> \o t.v)} : t \in Texts(SmallDocs)}
    \cup {PyStr(<<>>)}

Requests(entries, inputs, class_names, langs) ==
  [entry : entries, json_input : inputs, class_name : class_names,
   language : langs]

\* the calls a client makes
AllRequests ==
  Requests({"service"}, Texts(FlatDocs \cup OtherRoots), ClassNames, {dart})
    \cup Requests({"tool"}, Texts(FlatDocs \cup OtherRoots), {User}, {dart})
    \cup Requests({"service"}, Texts(ChainDocs(MaxDepth)), {Order, <<>>}, {dart})
    \cup Requests({"service"}, Texts(FieldDocs), {User}, {dart})
    \cup Requests({"service"}, Texts(DateDocs), {User}, {dart})
    \cup Requests({"service"}, Texts(ArrayDocs), {User}, {dart})
    \cup Requests({"tool", "service"}, Texts(SmallDocs), {User}, Languages)
    \cup Requests({"tool", "service"}, EditedTexts, {User},
                  {dart, typescript, java})
    \cup Requests({"tool", "service"}, SmallDocs, {User}, {dart, java})

\* a client calls the MCP tool
CallTool ==
  /\ pc = "idle"
  /\ \E r \in AllRequests :
       /\ r.entry = "tool"
       /\ request' = r
  /\ pc' = "tool"
  /\ UNCHANGED <<json_input, parsed_json, stack, nested_classes,
                 default_nested_classes, result, calls,
                 served>>

\* a caller (the command line) calls the service method
CallService ==
  /\ pc = "idle"
  /\ \E r \in AllRequests :
       /\ r.entry = "service"
       /\ request' = r
       /\ json_input' = r.json_input
  /\ pc' = "service"
  /\ UNCHANGED <<parsed_json, stack, nested_classes, default_nested_classes,
                 result, calls, served>>

Next ==
  \/ CallTool
  \/ CallService
  \/ ToolParseError
  \/ ToolDispatch
  \/ ServiceParseError
  \/ ServiceParsed
  \/ DispatchDart
  \/ DispatchMissingGenerator
  \/ DispatchUnsupported
  \/ GenerateRaise
  \/ GenerateField
  \/ GenerateEnter
  \/ GenerateReturn
  \/ GenerateFinish
  \/ Return

Spec == Init /\ [][Next]_vars

\* the documents of the termination check: objects nested to depth at most
\* d through object fields and through arrays, the arrays with or without
\* elements after the first
SampledWraps == {"object", "array", "array_object", "array_array"}

SampledWrap(w, obj) ==
  IF w = "object" THEN obj
  ELSE IF w = "array" THEN PyList(<<obj>>)
  ELSE IF w = "array_object"
    THEN PyList(<<obj, PyDict(<< <<k_name, PyInt(1)>> >>)>>)
  ELSE PyList(<<obj, PyList(<< PyDict(<<>>) >>)>>)

RECURSIVE NestedDocs(_)
NestedDocs(d) ==
  IF d = 0 THEN InnerObjects
  ELSE LET below == NestedDocs(d - 1)
       IN  below \cup {PyDict(<< <<k_items, SampledWrap(w, obj)>> >>) :
                         w \in SampledWraps, obj \in below}

\* objects with two nested fields, an array of arrays, an array with an
\* object after a number
SiblingDocs ==
  {PyDict(<< <<k_address, a>>, <<k_items, b>> >>) :
     a \in {PyDict(<< <<k_id, PyInt(1)>> >>), PyInt(1)},
     b \in {PyList(<< PyDict(<<>>), PyDict(<< <<k_id, PyInt(1)>> >>) >>),
            PyList(<< PyList(<< PyDict(<<>>) >>) >>),
            PyList(<< PyInt(1), PyDict(<< <<k_id, PyInt(1)>> >>) >>)}}

TerminationRequests ==
  Requests({"service"}, Texts(NestedDocs(MaxDepth) \cup SiblingDocs),
           {User}, {dart})

\* a caller calls the service method with an object-rooted document
CallSynthesis ==
  /\ pc = "idle"
  /\ \E r \in TerminationRequests :
       /\ request' = r
       /\ json_input' = r.json_input
  /\ pc' = "service"
  /\ UNCHANGED <<parsed_json, stack, nested_classes, default_nested_classes,
                 result, calls, served>>

TerminationNext ==
  \/ CallSynthesis
  \/ ServiceParsed
  \/ DispatchDart
  \/ GenerateField
  \/ GenerateEnter
  \/ GenerateReturn
  \/ GenerateFinish
  \/ Return

\* the call is synchronous code on one thread: once inside
\* _generate_dart_model the interpreter keeps taking the next step
TerminationSpec ==
  /\ Init
  /\ [][TerminationNext]_vars
  /\ WF_vars(GenerateField \/ GenerateEnter \/ GenerateReturn
               \/ GenerateFinish)

(***************************************************************************)
(* Properties.                                                              *)
(***************************************************************************)
\* the caller passed a text and the text is JSON
TextParses ==
  /\ isinstance(request.json_input, "str")
  /\ json_loads(request.json_input.v).ok

\* the caller passed a text and the text is not JSON
TextMalformed ==
  /\ isinstance(request.json_input, "str")
  /\ ~json_loads(request.json_input.v).ok

Returned == pc \in {"done", "raised"}

HasKey(key) == key \in DOMAIN result

StartsWith(s, prefix) == IsPrefixAt(s, 1, prefix)

\* C1 (as claimed): a call of the service method with language "dart" and a
\* text that is valid JSON, whatever the top-level shape, returns a result
\* with the key `code` and does not raise.
C1_Totality ==
  (Returned /\ request.entry = "service" /\ request.language = dart
     /\ TextParses)
    => (pc = "done" /\ HasKey("code"))

\* C2 (as claimed): a call with any language other than "dart" and a text
\* that parses returns exactly {error: "Language '<language>' is not
\* supported in offline mode"}.
C2_UnsupportedTarget ==
  (Returned /\ request.language # dart /\ TextParses)
    => result = [error |-> <<"Language '">> \o request.language
                    \o <<"' is not supported in offline mode">>]

\* C3 (as claimed): a call whose text does not parse, through the service
\* method or through the MCP tool, returns an `error` that begins with
\* "Invalid JSON: ", no `code`, and never invokes the class generator.
C3_MalformedInput ==
  (Returned /\ TextMalformed)
    => /\ pc = "done"
       /\ HasKey("error")
       /\ StartsWith(result.error, <<"Invalid JSON: ">>)
       /\ ~HasKey("code")
       /\ calls = 0

\* C4: no call lets an exception reach its caller, and the result of every
\* call has exactly one of the keys `code` and `error`.
C4_FailuresAsData ==
  /\ pc # "raised"
  /\ pc = "done" => (HasKey("code") # HasKey("error"))

\* C4 witness: a call in which an exception was raised inside the service's
\* try block has returned.
C4_Witness ==
  /\ pc = "done"
  /\ HasKey("error")
  /\ StartsWith(result.error, <<"Failed to generate model: ">>)

\* C5: a call leaves nothing behind and starts from nothing: between calls
\* no class table exists and the parameter default is still None, the root
\* activation starts with an empty class table, and the code a call returns
\* is the code _generate_dart_model gives for (parsed_json, class_name)
\* from an empty table, whatever calls came before.
C5_CallIsolation ==
  /\ pc = "idle"
       => (nested_classes = PyDict(<<>>) /\ default_nested_classes = None)
  /\ (pc = "generate" /\ Len(stack) = 1 /\ stack[1].next = 1)
       => nested_classes = PyDict(<<>>)
  /\ (pc = "done" /\ HasKey("code"))
       => result.code =
            generate_dart_model(parsed_json, request.class_name, <<>>,
                                PyDict(<<>>)).code

\* C5 witness: a call that follows an earlier call has returned code that
\* contains nested classes.
C5_Witness ==
  /\ pc = "done"
  /\ served
  /\ HasKey("code")
  /\ nested_classes.v # <<>>

\* the fragments of a declaration line "  final <type> <name>;" that make up
\* its type, for the declaration that starts at index i of the code
DeclarationTypeEnd(code, i) ==
  CHOOSE j \in (i + 1)..Len(code) :
    /\ code[j] = " "
    /\ \A m \in (i + 1)..(j - 1) : code[m] # " "

Declarations(code) == {i \in DOMAIN code : code[i] = "  final "}

TitleCased(key) == remove(title(key), "_")

\* the activation i was entered for an object-valued field of activation i-1
ObjectLink(i) == isinstance(NextValue(stack[i - 1]), "dict")

\* the root name followed by the title-cased keys on the way to activation i
RECURSIVE PathName(_)
PathName(i) ==
  IF i = 1 THEN request.class_name
  ELSE PathName(i - 1) \o TitleCased(NextKey(stack[i - 1]))

OrderShippingAddress ==
  <<"O","r","d","e","r","S","h","i","p","p","i","n","g",
    "A","d","d","r","e","s","s">>

OrderAddressCoordinates ==
  <<"O","r","d","e","r","A","d","d","r","e","s","s",
    "C","o","o","r","d","i","n","a","t","e","s">>

lowerCamel(name) ==
  [i \in DOMAIN name |-> IF i = 1 THEN char_lower(name[i]) ELSE name[i]]

\* C8 (as claimed): the returned code starts with the import and the two
\* helper functions lowerCamel(N)FromJson and lowerCamel(N)ToJson, where
\* only the first letter of the root class name N is lowered.
C8_HelperNaming ==
  (pc = "done" /\ HasKey("code"))
    => StartsWith(result.code,
         <<"import 'dart:convert';", "\n", "\n">>
           \o request.class_name \o <<" ">> \o lowerCamel(request.class_name)
           \o <<"FromJson(String str) => ">> \o request.class_name
           \o <<".fromJson(json.decode(str));", "\n", "\n", "String ">>
           \o lowerCamel(request.class_name) \o <<"ToJson(">>
           \o request.class_name
           \o <<" data) => json.encode(data.toJson());">>)

\* the key without one trailing "s"
StripOneS(key) ==
  IF endswith(key, "s") THEN slice(key, 1, Len(key) - 1) ELSE key

\* the fields an activation has already handled
Handled(frame) == 1..(frame.next - 1)

\* C9 (as claimed): for a field whose array starts with an object, the item
\* class is named parent + title-cased key with exactly one trailing `s`
\* removed, and the field is declared List<Item>?.
C9_ItemClassNaming ==
  pc = "generate"
    => \A i \in DOMAIN stack :
         /\ (i > 1 /\ ~ObjectLink(i))
              => stack[i].class_name =
                   stack[i - 1].class_name
                     \o TitleCased(StripOneS(NextKey(stack[i - 1])))
         /\ \A n \in Handled(stack[i]) :
              LET key == stack[i].json_data.v[n][1]
                  val == stack[i].json_data.v[n][2]
              IN  FieldBranch(key, val) = "object_array"
                    => stack[i].class_code[n + 1] =
                         <<"  final ", "List<">> \o stack[i].class_name
                           \o TitleCased(StripOneS(key))
                           \o <<">", "?", " ">> \o key \o <<";">>

\* every element of the array is exactly of the given type; a bool is not
\* an int here
AllOfKind(value, kind) == \A i \in DOMAIN value.v : value.v[i].k = kind

DartTypeOf(kind) ==
  IF kind = "str" THEN "String"
  ELSE IF kind = "int" THEN "int"
  ELSE IF kind = "float" THEN "double"
  ELSE "bool"

\* C10 (as claimed): a field whose non-empty array holds primitives of one
\* kind is declared as the list of that kind: String, int, double or bool,
\* with bool and int distinct.
C10_HomogeneousArrays ==
  pc = "generate"
    => \A i \in DOMAIN stack :
         \A n \in Handled(stack[i]) :
           LET key == stack[i].json_data.v[n][1]
               val == stack[i].json_data.v[n][2]
           IN  \A kind \in {"str", "int", "float", "bool"} :
                 (isinstance(val, "list") /\ Len(val.v) > 0
                    /\ AllOfKind(val, kind))
                   => stack[i].class_code[n + 1] =
                        <<"  final ", "List<", DartTypeOf(kind), ">", "?", " ">>
                          \o key \o <<";">>

\* the JSON kinds of primitives
PrimitiveKinds == {"NoneType", "bool", "int", "float", "str"}

\* an array of primitives that is empty, holds a null, or holds primitives
\* of more than one kind
EmptyOrMixed(value) ==
  /\ isinstance(value, "list")
  /\ \A i \in DOMAIN value.v : value.v[i].k \in PrimitiveKinds
  /\ \/ value.v = <<>>
     \/ \E i \in DOMAIN value.v : value.v[i] = None
     \/ \E i, j \in DOMAIN value.v : value.v[i].k # value.v[j].k

\* C11 (as claimed): a field whose array is empty or mixes primitive kinds
\* (or holds a null) is declared List<dynamic>?, the activation that meets
\* it registers no class for it, and the call returns `code`.
C11_ArraySamplingBoundary ==
  /\ pc = "generate"
       => \A i \in DOMAIN stack :
            \A n \in Handled(stack[i]) :
              LET key == stack[i].json_data.v[n][1]
                  val == stack[i].json_data.v[n][2]
              IN  EmptyOrMixed(val)
                    => stack[i].class_code[n + 1] =
                         <<"  final ", "List<", "dynamic", ">", "?", " ">>
                           \o key \o <<";">>
  /\ (pc = "done" /\ request.language = dart
        /\ isinstance(parsed_json, "dict") /\ parsed_json.v # <<>>
        /\ \A n \in DOMAIN parsed_json.v : EmptyOrMixed(parsed_json.v[n][2]))
       => (HasKey("code") /\ nested_classes.v = <<>>)

\* sub occurs in s
Occurs(sub, s) ==
  \E i \in 1..(Len(s) - Len(sub) + 1) :
    \A j \in DOMAIN sub : s[i + j - 1] = sub[j]

\* the key, read without regard to case, contains a date or time hint
KeyHints(key) ==
  \E hint \in {<<"d","a","t","e">>, <<"t","i","m","e">>,
               <<"c","r","e","a","t","e","d">>,
               <<"u","p","d","a","t","e","d">>} :
    Occurs(hint, [i \in DOMAIN key |-> char_lower(key[i])])

\* the text contains both T and Z, or both - and :
DateShaped(text) ==
  \/ Occurs(<<"T">>, text) /\ Occurs(<<"Z">>, text)
  \/ Occurs(<<"-">>, text) /\ Occurs(<<":">>, text)

\* the declaration line of a field of the given type
Declaration(type, key) == <<"  final ", type, "?", " ">> \o key \o <<";">>

TypeError == [k |-> "error", v |-> "TypeError"]

FormatException == [k |-> "error", v |-> "FormatException"]

\* a class the text defines twice, or not at all, does not compile
CompileError == [k |-> "error", v |-> "CompileError"]

Instance(class_name, fields) ==
  [k |-> "instance", v |-> [class_name |-> class_name, fields |-> fields]]

\* json['key'] on a Map: null when the key is missing
map_get(pairs, key) ==
  IF \E i \in DOMAIN pairs : pairs[i][1] = key
    THEN pairs[CHOOSE i \in DOMAIN pairs : pairs[i][1] = key][2]
    ELSE None

\* the index after the line that starts at index s
LineEnd(code, s) ==
  CHOOSE e \in s..(Len(code) + 1) :
    /\ e = Len(code) + 1 \/ code[e] = "\n"
    /\ \A m \in s..(e - 1) : code[m] # "\n"

\* the lines from index s up to the line `last` (a section of a class)
RECURSIVE LinesUntil(_, _, _)
LinesUntil(code, s, last) ==
  LET e    == LineEnd(code, s)
      line == slice(code, s, e - 1)
  IN  IF line = last \/ s > Len(code) THEN <<>>
      ELSE <<line>> \o LinesUntil(code, e + 1, last)

\* where the fromJson factories of the class start in the text
FactoryStarts(code, class_name) ==
  {i \in DOMAIN code :
     /\ code[i] = "  factory "
     /\ slice(code, i + 1, i + Len(class_name)) = class_name
     /\ i + Len(class_name) + 1 <= Len(code)
     /\ code[i + Len(class_name) + 1] = ".fromJson(Map<String, dynamic> json) => "}

\* the lines of the fromJson factory and of the toJson method of the class
fromJsonLines(code, class_name) ==
  LET f == CHOOSE i \in FactoryStarts(code, class_name) : TRUE
  IN  LinesUntil(code, LineEnd(code, f) + 1, <<"  );">>)

toJsonLines(code, class_name) ==
  LET f == CHOOSE i \in FactoryStarts(code, class_name) : TRUE
      t == CHOOSE i \in f..Len(code) :
             /\ code[i] = "  Map<String, dynamic> toJson() => {"
             /\ \A m \in f..(i - 1) :
                  code[m] # "  Map<String, dynamic> toJson() => {"
  IN  LinesUntil(code, t + 2, <<"  };">>)

\* the index of the first fragment of the line that is `part`
PartAt(line, part) ==
  CHOOSE p \in DOMAIN line :
    line[p] = part /\ \A m \in 1..(p - 1) : line[m] # part

\* "    key: json['key']<rest>": the key and the rest of a fromJson line
fromJsonKey(line) == slice(line, 2, PartAt(line, ": json['") - 1)

fromJsonRest(line) ==
  slice(line, PartAt(line, ": json['") + Len(fromJsonKey(line)) + 2, Len(line))

\* "    'key': key<rest>": the key and the rest of a toJson line
toJsonKey(line) == slice(line, 2, PartAt(line, "': ") - 1)

toJsonRest(line) ==
  slice(line, PartAt(line, "': ") + Len(toJsonKey(line)) + 1, Len(line))

\* the run-time type test List<T>.from makes on each element
DartIs(value, type) ==
  \/ type = "dynamic"
  \/ type = "int" /\ value.k = "int"
  \/ type = "double" /\ value.k = "float"
  \/ type = "String" /\ value.k = "str"
  \/ type = "bool" /\ value.k = "bool"

\* the first error among the values, if there is one
FirstError(values) ==
  IF \E i \in DOMAIN values : values[i].k = "error"
    THEN values[CHOOSE i \in DOMAIN values :
                  values[i].k = "error"
                    /\ \A m \in 1..(i - 1) : values[m].k # "error"]
    ELSE None

\* a UTC timestamp YYYY-MM-DDTHH:MM:SSZ, with or without .mmm
IsTimestamp(text) ==
  /\ Len(text) \in {20, 24}
  /\ \A i \in {1, 2, 3, 4, 6, 7, 9, 10, 12, 13, 15, 16, 18, 19} :
       isdigit(text[i])
  /\ text[5] = "-" /\ text[8] = "-" /\ text[11] = "T"
  /\ text[14] = ":" /\ text[17] = ":"
  /\ text[Len(text)] = "Z"
  /\ Len(text) = 24
       => text[20] = "." /\ \A i \in 21..23 : isdigit(text[i])

\* DateTime.parse: the instant, to the millisecond; a text without a date
\* in it is a FormatException
DateTimeParse(value) ==
  IF value.k # "str" THEN TypeError
  ELSE IF ~IsTimestamp(value.v) THEN FormatException
  ELSE [k |-> "DateTime",
        v |-> [seconds |-> slice(value.v, 1, 19),
               millis  |-> IF Len(value.v) = 24 THEN slice(value.v, 21, 23)
                           ELSE <<"0", "0", "0">>]]

\* DateTime.toIso8601String of a UTC instant: always with milliseconds
toIso8601String(date) ==
  PyStr(date.v.seconds \o <<".">> \o date.v.millis \o <<"Z">>)

RECURSIVE fromJson(_, _, _)
RECURSIVE fromJsonField(_, _, _)

\* the value the expression of one fromJson line gives
fromJsonField(code, line, json) ==
  LET key   == fromJsonKey(line)
      rest  == fromJsonRest(line)
      value == map_get(json.v, key)
  IN  IF rest = <<",">> THEN value
      ELSE IF rest[1] = " == null ? null : DateTime.parse(json['"
        THEN IF value.k = "NoneType" THEN None ELSE DateTimeParse(value)
      ELSE IF rest[1] = " == null ? null : "
        THEN IF value.k = "NoneType" THEN None
             ELSE fromJson(code,
                    slice(rest, 2, PartAt(rest, ".fromJson(json['") - 1), value)
      ELSE \* " == null ? [] : List<" T ">.from(json['" key "']!.map(...)),"
        LET close == PartAt(rest, ">.from(json['")
            type  == slice(rest, 2, close - 1)
            each  == rest[close + Len(key) + 1]
        IN  IF value.k = "NoneType" THEN PyList(<<>>)
            ELSE IF value.k # "list" THEN TypeError
            ELSE IF each = "']!.map((x) => x)),"
              THEN IF \A i \in DOMAIN value.v : DartIs(value.v[i], type[1])
                     THEN value ELSE TypeError
            ELSE \* "']!.map((x) => x == null ? null : " T ".fromJson(x))),"
              LET items == [i \in DOMAIN value.v |->
                              IF value.v[i].k = "NoneType" THEN TypeError
                              ELSE fromJson(code, type, value.v[i])]
              IN  IF FirstError(items).k = "error" THEN FirstError(items)
                  ELSE PyList(items)

\* ClassName.fromJson(json)
fromJson(code, class_name, json) ==
  IF json.k # "dict" THEN TypeError
  ELSE IF Cardinality(FactoryStarts(code, class_name)) # 1 THEN CompileError
  ELSE
    LET lines  == fromJsonLines(code, class_name)
        values == [n \in DOMAIN lines |-> fromJsonField(code, lines[n], json)]
    IN  IF FirstError(values).k = "error" THEN FirstError(values)
        ELSE Instance(class_name,
               [n \in DOMAIN lines |-> <<fromJsonKey(lines[n]), values[n]>>])

RECURSIVE toJson(_, _)
RECURSIVE toJsonField(_, _, _)

\* the value the expression of one toJson line gives
toJsonField(code, line, instance) ==
  LET key   == toJsonKey(line)
      rest  == toJsonRest(line)
      value == map_get(instance.v.fields, key)
  IN  IF rest = <<",">> THEN value
      ELSE IF rest = <<"?.toJson(),">>
        THEN IF value.k = "NoneType" THEN None ELSE toJson(code, value)
      ELSE IF rest = <<"?.toIso8601String(),">>
        THEN IF value.k = "NoneType" THEN None ELSE toIso8601String(value)
      ELSE \* " == null ? [] : List<dynamic>.from(" key "!.map(...)),"
        IF value.k = "NoneType" THEN PyList(<<>>)
        ELSE IF rest[Len(rest)] = "!.map((x) => x)),"
          THEN value
        ELSE \* "!.map((x) => x?.toJson())),"
          PyList([i \in DOMAIN value.v |->
                    IF value.v[i].k = "NoneType" THEN None
                    ELSE toJson(code, value.v[i])])

\* instance.toJson()
toJson(code, instance) ==
  LET lines == toJsonLines(code, instance.v.class_name)
  IN  PyDict([n \in DOMAIN lines |->
                <<toJsonKey(lines[n]), toJsonField(code, lines[n], instance)>>])


\* the field is declared dynamic? or List<dynamic>?
TypedDynamic(class_name, key, value) ==
  field_type(class_name, key, value)
    \in {<<"dynamic", "?">>, <<"List<", "dynamic", ">", "?">>}

\* C13 (as claimed): for the code returned for a sample, decoding the sample
\* with the emitted fromJson gives an instance, encoding that instance with
\* the emitted toJson gives back the sample's value for every field that is
\* not typed dynamic, and decoding the encoded map gives an equal instance.
C13_RoundTrip ==
  (pc = "done" /\ HasKey("code") /\ isinstance(parsed_json, "dict"))
    => LET instance == fromJson(result.code, request.class_name, parsed_json)
       IN  /\ instance.k = "instance"
           /\ LET encoded == toJson(result.code, instance)
                  again   == fromJson(result.code, request.class_name, encoded)
              IN  /\ \A n \in DOMAIN parsed_json.v :
                       LET key == parsed_json.v[n][1]
                           val == parsed_json.v[n][2]
                       IN  ~TypedDynamic(request.class_name, key, val)
                             => map_get(encoded.v, key) = val
                  /\ again.k = "instance"
                  /\ again = instance


\* where the class definitions of an emitted text start, and the names they
\* define
ClassStarts(code) ==
  {i \in DOMAIN code : code[i] = "class " /\ (i = 1 \/ code[i - 1] = "\n")}

ClassNameAt(code, i) ==
  slice(code, i + 1,
        (CHOOSE p \in (i + 1)..Len(code) :
           code[p] = " {" /\ \A m \in (i + 1)..(p - 1) : code[m] # " {") - 1)

DefinedClasses(code) == {ClassNameAt(code, i) : i \in ClassStarts(code)}

\* C14 (as claimed): in the code returned for an object-rooted document no
\* class name is defined twice, the root class included, also when a key
\* title-cases to nothing and the derived name is the enclosing class's.
C14_UniqueClassNames ==
  (pc = "done" /\ HasKey("code"))
    => \A i, j \in ClassStarts(result.code) :
         i # j => ClassNameAt(result.code, i) # ClassNameAt(result.code, j)


\* the nested positions of an object (its object-valued fields and the
\* first elements of its arrays of objects, and theirs), in the order in
\* which their classes are stored in the class table
RECURSIVE Positions(_, _)
Positions(json_data, class_name) ==
  LET upto[n \in 0..Len(json_data.v)] ==
        IF n = 0 THEN <<>>
        ELSE LET key == json_data.v[n][1]
                 val == json_data.v[n][2]
             IN  IF FieldBranch(key, val) \in {"object", "object_array"}
                   THEN upto[n - 1]
                          \o Positions(NestedData(key, val),
                                       NestedName(class_name, key, val))
                          \o << [name   |-> NestedName(class_name, key, val),
                                 data   |-> NestedData(key, val),
                                 parent |-> class_name] >>
                   ELSE upto[n - 1]
  IN  upto[Len(json_data.v)]

\* the text of the class synthesized from a position
ClassText(position) ==
  join(<<"\n">>,
       FinalClassCode(
         generate_fields(NewFrame(position.data, position.name,
                                  position.parent),
                         PyDict(<<>>)).frame))

\* the text occurs in the code
OccursIn(text, code) ==
  \E i \in 1..(Len(code) - Len(text) + 1) :
    /\ code[i] = text[1]
    /\ slice(code, i, i + Len(text) - 1) = text

BuiltInTypes ==
  {<<"bool">>, <<"int">>, <<"double">>, <<"String">>, <<"dynamic">>,
   <<"DateTime">>, <<"Map<String, dynamic>">>}

\* the type name a declaration refers to: T of `T?` and of `List<T>?`
ReferredType(code, i) ==
  LET type == slice(code, i + 1, DeclarationTypeEnd(code, i) - 2)
  IN  IF Len(type) > 0 /\ type[1] = "List<"
        THEN slice(type, 2, Len(type) - 1)
        ELSE type

\* C16: in the code returned for an object-rooted document, every class
\* name that a field declaration refers to, as `Name?` or as `List<Name>?`,
\* is the name of a class the same code defines.
C16_ReferenceClosure ==
  (pc = "done" /\ HasKey("code"))
    => \A i \in Declarations(result.code) :
         ReferredType(result.code, i) \notin BuiltInTypes
           => ReferredType(result.code, i) \in DefinedClasses(result.code)

\* C16 witness: the returned code defines three classes or more, and one
\* of its fields is a list of a class.
C16_Witness ==
  /\ pc = "done"
  /\ HasKey("code")
  /\ Cardinality(DefinedClasses(result.code)) >= 3
  /\ \E i \in Declarations(result.code) :
       /\ result.code[i + 1] = "List<"
       /\ ReferredType(result.code, i) \notin BuiltInTypes


\* how often a part occurs in the code
CountOf(code, part) == Cardinality({i \in DOMAIN code : code[i] = part})

\* the names in the order of their first occurrence
RECURSIVE FirstOccurrences(_)
FirstOccurrences(names) ==
  IF names = <<>> THEN <<>>
  ELSE LET before == FirstOccurrences(slice(names, 1, Len(names) - 1))
           name   == names[Len(names)]
       IN  IF \E i \in DOMAIN before : before[i] = name
             THEN before ELSE Append(before, name)

\* the names the class definitions of the code define, in text order
ClassSequence(code) ==
  LET starts == ClassStarts(code)
      nth(k) == CHOOSE s \in starts :
                  Cardinality({t \in starts : t < s}) = k - 1
  IN  [k \in 1..Cardinality(starts) |-> ClassNameAt(code, nth(k))]

\* the declarations in the body of the class definition that starts at i
DeclarationsOf(code, i) ==
  {d \in Declarations(code) :
     /\ d > i
     /\ \A s \in ClassStarts(code) : s > i => d < s}

\* C17 (as claimed): the returned code is the import line and the two
\* helper functions, once each, then the root class, then the classes of
\* the class table, once each, in the order of their first registration;
\* a class of the table comes after the classes its fields refer to; no
\* nested class brings an import or helper functions of its own.  This
\* holds for every root class name, the empty one included.
C17_OutputLayout ==
  (pc = "done" /\ HasKey("code"))
    => LET code      == result.code
           positions == Positions(parsed_json, request.class_name)
           first     == CHOOSE s \in ClassStarts(code) :
                          \A t \in ClassStarts(code) : s <= t
       IN  /\ code[1] = "import 'dart:convert';"
           /\ CountOf(code, "import 'dart:convert';") = 1
           /\ CountOf(code, "FromJson(String str) => ") = 1
           /\ CountOf(code, " data) => json.encode(data.toJson());") = 1
           /\ \A i \in DOMAIN code :
                code[i] \in {"FromJson(String str) => ",
                             " data) => json.encode(data.toJson());"}
                  => i < first
           /\ ClassSequence(code)
                = <<request.class_name>>
                    \o FirstOccurrences([n \in DOMAIN positions |->
                                           positions[n].name])
           /\ \A i \in ClassStarts(code) \ {first} :
                \A d \in DeclarationsOf(code, i) :
                  (ReferredType(code, d) \notin BuiltInTypes
                     /\ ReferredType(code, d) # ClassNameAt(code, i))
                    => \E j \in ClassStarts(code) \ {first} :
                         /\ j < i
                         /\ ClassNameAt(code, j) = ReferredType(code, d)


\* the key a declaration declares: "  final T? key;"
DeclaredKey(code, d) ==
  slice(code, DeclarationTypeEnd(code, d) + 1, LineEnd(code, d) - 2)

\* the declaration of the key in the class definition that starts at i
DeclarationOf(code, i, key) ==
  CHOOSE d \in DeclarationsOf(code, i) : DeclaredKey(code, d) = key

IsListType(code, d) == code[d + 1] = "List<"

IsClassType(code, d) ==
  ~IsListType(code, d) /\ ReferredType(code, d) \notin BuiltInTypes

IsClassListType(code, d) ==
  IsListType(code, d) /\ ReferredType(code, d) \notin BuiltInTypes

\* a map that holds every key of the class with the value null
NullMap(lines) == PyDict([n \in DOMAIN lines |-> <<fromJsonKey(lines[n]), None>>])

\* the class definitions whose name the code defines once
SingleClasses(code) ==
  {i \in ClassStarts(code) :
     Cardinality(FactoryStarts(code, ClassNameAt(code, i))) = 1}

RECURSIVE Sampled(_)
Sampled(value) ==
  IF value.k = "dict"
    THEN PyDict([n \in DOMAIN value.v |->
                   <<value.v[n][1], Sampled(value.v[n][2])>>])
  ELSE IF value.k = "list" /\ value.v # <<>> /\ value.v[1].k = "dict"
    THEN PyList(<<Sampled(value.v[1])>>)
  ELSE value

\* C19: the class of an array's items is synthesized from the array's first
\* element alone: the activation entered for the array works on that
\* element, every class gets one declaration per key of its object, in key
\* order, and the returned code is the code of the document in which every
\* array of objects is cut down to its first element, so documents that
\* differ only after the first element give identical code.
C19_FirstElementOnly ==
  /\ pc = "generate"
       => \A i \in DOMAIN stack :
            /\ (i > 1 /\ ~ObjectLink(i))
                 => /\ stack[i].json_data.k = "dict"
                    /\ stack[i].json_data = NextValue(stack[i - 1]).v[1]
            /\ stack[i].json_data.k = "dict"
                 => /\ Len(stack[i].class_code) = stack[i].next
                    /\ \A n \in Handled(stack[i]) :
                         LET key  == stack[i].json_data.v[n][1]
                             line == stack[i].class_code[n + 1]
                         IN  slice(line, Len(line) - Len(key) - 1, Len(line))
                               = <<" ">> \o key \o <<";">>
  /\ (pc = "done" /\ HasKey("code") /\ isinstance(parsed_json, "dict"))
       => result.code =
            generate_dart_model(Sampled(parsed_json), request.class_name,
                                <<>>, PyDict(<<>>)).code

\* C19 witness: code was returned for an array whose first element has the
\* keys name and id and whose second element is an object with another key.
C19_Witness ==
  /\ pc = "done"
  /\ HasKey("code")
  /\ Len(parsed_json.v) = 1
  /\ parsed_json.v[1][2].k = "list"
  /\ Len(parsed_json.v[1][2].v) >= 2
  /\ parsed_json.v[1][2].v[1].k = "dict"
  /\ Len(parsed_json.v[1][2].v[1].v) = 2
  /\ parsed_json.v[1][2].v[2].k = "dict"
  /\ Len(parsed_json.v[1][2].v[2].v) = 1


\* the number of values in a document
RECURSIVE Size(_)
Size(value) ==
  LET parts == IF value.k = "dict"
                 THEN [n \in DOMAIN value.v |-> Size(value.v[n][2])]
               ELSE IF value.k = "list"
                 THEN [n \in DOMAIN value.v |-> Size(value.v[n])]
               ELSE <<>>
      sum[n \in 0..Len(parts)] == IF n = 0 THEN 0 ELSE sum[n - 1] + parts[n]
  IN  1 + sum[Len(parts)]

\* the objects the synthesis is to visit: the object itself, the objects
\* that are values of its fields and the objects that are first elements
\* of its array-valued fields, and theirs
RECURSIVE Visits(_)
Visits(object) ==
  LET below == [n \in DOMAIN object.v |->
                  LET val == object.v[n][2]
                  IN  IF val.k = "dict" THEN Visits(val)
                      ELSE IF val.k = "list" /\ val.v # <<>>
                                /\ val.v[1].k = "dict"
                        THEN Visits(val.v[1])
                      ELSE 0]
      sum[n \in 0..Len(below)] == IF n = 0 THEN 0 ELSE sum[n - 1] + below[n]
  IN  1 + sum[Len(below)]

\* the activations are the root's and, below it, each one for the object
\* value or the object first element of the field its caller is at, a
\* strictly smaller document; no more activations than objects to visit
VisitsOnlySampledObjects ==
  /\ (pc = "generate" /\ isinstance(parsed_json, "dict"))
       => /\ calls <= Visits(parsed_json)
          /\ stack[1].json_data = parsed_json
          /\ \A i \in 2..Len(stack) :
               LET value == NextValue(stack[i - 1])
               IN  /\ stack[i].json_data.k = "dict"
                   /\ \/ value.k = "dict" /\ stack[i].json_data = value
                      \/ /\ value.k = "list"
                         /\ value.v # <<>>
                         /\ value.v[1].k = "dict"
                         /\ stack[i].json_data = value.v[1]
                   /\ Size(stack[i].json_data) < Size(stack[i - 1].json_data)
  /\ (pc = "done" /\ request.language = dart /\ isinstance(parsed_json, "dict"))
       => (HasKey("code") /\ calls = Visits(parsed_json))

\* C20: the synthesis of an object-rooted document is called once for the
\* root and once for each object that is a field's value or the first
\* element of a field's array in a visited object, each time on a strictly
\* smaller document, never for an object later in an array or inside an
\* array of arrays, and once started it returns with code.
C20_Termination ==
  /\ []VisitsOnlySampledObjects
  /\ (pc = "generate" /\ isinstance(parsed_json, "dict"))
       ~> (pc = "done" /\ HasKey("code"))

\* C20 witness: the call has returned code after two activations for a
\* document whose array holds a second object, which no activation visited.
C20_Witness ==
  /\ pc = "done"
  /\ HasKey("code")
  /\ calls = 2
  /\ Len(parsed_json.v) = 1
  /\ parsed_json.v[1][2].k = "list"
  /\ Len(parsed_json.v[1][2].v) = 2
  /\ parsed_json.v[1][2].v[2].k = "dict"

=============================================================================
